---- MODULE Spec2Model ----
(***************************************************************************)
(* Model of plant_balancer: the allocation resolver                        *)
(* (simulator._resolve_step_machines / _normalize_allocation), the day     *)
(* aggregation loop of simulator.simulate, and the derived queries of      *)
(* models.DaySummary.                                                      *)
(*                                                                         *)
(* Python floats are modelled as binary floating-point numbers with a      *)
(* Precision-bit significand and gradual underflow at 2^-FracBits: a float *)
(* is the integer count of units of 2^-FracBits, and every arithmetic      *)
(* result is rounded to nearest, ties to even, as IEEE-754 does. A result   *)
(* of magnitude 2^MaxExponent units or more overflows to an infinity.       *)
(***************************************************************************)
EXTENDS Integers, Sequences, FiniteSets, TLC

\* ------------------------------------------------------------------ bounds
Precision == 7
FracBits == 12
MaxExponent == 17
MaxOrders == 2
MaxSlots == 3

\* ------------------------------------------------------- float arithmetic
Abs(x) == IF x < 0 THEN -x ELSE x

RECURSIVE Pow2(_)
Pow2(n) == IF n <= 0 THEN 1 ELSE 2 * Pow2(n - 1)

RECURSIVE BitLen(_)
BitLen(n) == IF n <= 0 THEN 0 ELSE 1 + BitLen(n \div 2)

One == Pow2(FracBits)

\* nearest integer to x / y (x >= 0, y > 0), ties to even
RoundHalfEven(x, y) ==
    LET q == x \div y
        r == x % y
    IN  IF 2 * r < y THEN q
        ELSE IF 2 * r > y THEN q + 1
        ELSE IF q % 2 = 0 THEN q ELSE q + 1

\* float("inf") and float("nan"); -Inf is the negative infinity
Inf == Pow2(MaxExponent)
NaN == Inf + 1
IsNaN(x) == x = NaN
Finite(x) == -Inf < x /\ x < Inf
Sign(x) == IF x < 0 THEN -1 ELSE 1

\* the largest finite float (sys.float_info.max)
Huge == Inf - Pow2(MaxExponent - Precision)

\* the float nearest to num / den units (den > 0); a rounded magnitude beyond
\* the largest finite float is an infinity
RoundToFloat(num, den) ==
    LET a == Abs(num)
        e == BitLen(a \div den) - Precision
        m == IF e <= 0 THEN RoundHalfEven(a, den)
             ELSE RoundHalfEven(a, den * Pow2(e)) * Pow2(e)
    IN  Sign(num) * (IF m >= Inf THEN Inf ELSE m)

FAdd(a, b) ==
    IF IsNaN(a) \/ IsNaN(b) THEN NaN
    ELSE IF ~Finite(a) THEN (IF ~Finite(b) /\ a # b THEN NaN ELSE a)
    ELSE IF ~Finite(b) THEN b
    ELSE RoundToFloat(a + b, 1)

FMul(a, b) ==
    IF IsNaN(a) \/ IsNaN(b) THEN NaN
    ELSE IF ~Finite(a) \/ ~Finite(b)
    THEN (IF a = 0 \/ b = 0 THEN NaN ELSE Sign(a) * Sign(b) * Inf)
    ELSE RoundToFloat(a * b, One)

\* a / b for b # 0 (the code never divides by zero)
FDiv(a, b) ==
    IF IsNaN(a) \/ IsNaN(b) THEN NaN
    ELSE IF ~Finite(a) THEN (IF ~Finite(b) THEN NaN ELSE Sign(a) * Sign(b) * Inf)
    ELSE IF ~Finite(b) THEN 0
    ELSE IF b < 0 THEN RoundToFloat(-(a * One), -b)
    ELSE RoundToFloat(a * One, b)

\* a < b and a > b: every comparison with a NaN is false
FLess(a, b) == ~IsNaN(a) /\ ~IsNaN(b) /\ a < b
FGreater(a, b) == ~IsNaN(a) /\ ~IsNaN(b) /\ a > b
FromInt(n) == n * One

RECURSIVE FSum(_)
\* left-to-right accumulation "total += value" starting from 0.0
FSum(values) ==
    IF values = <<>> THEN 0
    ELSE FAdd(FSum(SubSeq(values, 1, Len(values) - 1)), values[Len(values)])

\* ------------------------------------------------------------ domain model
None == "None"
\* "if x" / "if not x" on an Optional[str]: None and the empty string are false
Truthy(x) == x # None /\ x # ""
Range(seq) == {seq[i] : i \in 1..Len(seq)}
EmptyMap == [x \in {} |-> 0]
Get(map, key) == IF key \in DOMAIN map THEN map[key] ELSE 0
RECURSIVE Concat(_)
Concat(seqs) == IF seqs = <<>> THEN <<>> ELSE seqs[1] \o Concat(Tail(seqs))

RECURSIVE KeysOf(_)
\* the keys of a dict, one after the other
KeysOf(map) ==
    IF DOMAIN map = {} THEN <<>>
    ELSE LET key == CHOOSE k \in DOMAIN map : TRUE
         IN  <<key>> \o KeysOf([k \in DOMAIN map \ {key} |-> map[k]])

Ok(v) == [ok |-> TRUE, value |-> v]
Raise(e) == [ok |-> FALSE, err |-> e]

RecipeStep(name, target, machine_id, group_id, required_group, allocation, capacity_usage, resource_changes) ==
    [name |-> name, target |-> target, machine_id |-> machine_id,
     group_id |-> group_id, required_group |-> required_group,
     allocation |-> allocation, capacity_usage |-> capacity_usage,
     resource_changes |-> resource_changes]

ProductionOrder(date, product_id, machine_id, quantity) ==
    [date |-> date, product_id |-> product_id, machine_id |-> machine_id,
     quantity |-> quantity]

\* allocation: Optional[Dict[str, float]]
NoAllocation == [none |-> TRUE, map |-> EmptyMap]
Allocation(map) == [none |-> FALSE, map |-> map]

\* Plant.__post_init__: every declared group starts with an empty list, then
\* the machines are appended in the order of the machines dict
machines_by_group(p) ==
    [g \in p.machine_groups \cup {p.machines[m].group_id : m \in DOMAIN p.machines} |->
        SelectSeq(p.machine_order, LAMBDA m : p.machines[m].group_id = g)]

get_machine(p, machine_id) ==
    IF machine_id \in DOMAIN p.machines THEN Ok(machine_id) ELSE Raise("NotFound")

get_product(p, product_id) ==
    IF product_id \in DOMAIN p.products THEN Ok(product_id) ELSE Raise("NotFound")

\* faulty variant: a group without machines gives an empty list
machines_in_group_lenient(p, group_id) ==
    IF group_id \notin DOMAIN machines_by_group(p) THEN Raise("NotFound")
    ELSE Ok(machines_by_group(p)[group_id])

machines_in_group(p, group_id) ==
    IF group_id \notin DOMAIN machines_by_group(p) THEN Raise("NotFound")
    ELSE IF machines_by_group(p)[group_id] = <<>> THEN Raise("EmptyGroup")
    ELSE Ok(machines_by_group(p)[group_id])

\* ------------------------------------------------------ allocation resolver
\* faulty variant: one machine too many in the divisor
even_split_off_by_one(machines) ==
    [m \in Range(machines) |-> FDiv(One, FromInt(Len(machines) + 1))]

\* "share = 1.0 / len(machines)" for every machine
even_split(machines) ==
    [m \in Range(machines) |-> FDiv(One, FromInt(Len(machines)))]

\* faulty variant: the total of every entry of the allocation, matched or not
matched_total_of_all_entries(matched, allocation) ==
    FSum([i \in 1..Len(KeysOf(allocation.map)) |-> allocation.map[KeysOf(allocation.map)[i]]])

\* "total += float(value)" over the machines of the group that have an entry
matched_total(matched, allocation) ==
    FSum([i \in 1..Len(matched) |-> allocation.map[matched[i]]])

\* faulty variant: the even split of the whole group
fallback_split_of_group(machines, matched) ==
    [m \in Range(machines) |-> FDiv(One, FromInt(Len(machines)))]

\* "share = 1.0 / len(normalized)" for the matched machines
fallback_split(machines, matched) ==
    [m \in Range(matched) |-> FDiv(One, FromInt(Len(matched)))]

\* faulty variant: the weights as they are
weighted_split_raw(matched, allocation, total) ==
    [m \in Range(matched) |-> allocation.map[m]]

\* "value / total" for the matched machines
weighted_split(matched, allocation, total) ==
    [m \in Range(matched) |-> FDiv(allocation.map[m], total)]

normalize_allocation(machines, allocation) ==
    IF machines = <<>> THEN Raise("EmptyGroup")
    ELSE IF allocation.none \/ DOMAIN allocation.map = {}
    THEN Ok(even_split(machines))
    ELSE LET matched == SelectSeq(machines, LAMBDA m : m \in DOMAIN allocation.map)
             total == matched_total(matched, allocation)
         IN  IF \E m \in Range(matched) : FLess(allocation.map[m], 0)
             THEN Raise("NegativeAllocation")
             ELSE IF matched = <<>> THEN Raise("NoMatchingAllocation")
             ELSE IF total = 0 THEN Ok(fallback_split(machines, matched))
             ELSE Ok(weighted_split(matched, allocation, total))

\* faulty variant: the identifying field is looked up without being tested
missing_field_unchecked(id) == FALSE

\* "if not step.machine_id" / "if not step.group_id"
missing_field(id) == ~Truthy(id)

\* faulty variant: any machine does for the order
group_mismatch_never(required_group, group_id) == FALSE

\* "step.required_group and machine.group_id != step.required_group"
group_mismatch(required_group, group_id) ==
    Truthy(required_group) /\ group_id # required_group

\* faulty variant: a step of an unknown target uses no machine
unknown_target_ignored(step) == Ok(<<>>)

\* the final "raise SimulationError(... alvo desconhecido ...)"
unknown_target(step) == Raise("UnknownTarget")

resolve_step_machines(step, order, p) ==
    IF step.target = "order_machine"
    THEN LET machine == get_machine(p, order.machine_id)
         IN  IF ~machine.ok THEN machine
             ELSE IF group_mismatch(step.required_group, p.machines[machine.value].group_id)
             THEN Raise("GroupMismatch")
             ELSE Ok(<<[machine |-> machine.value, share |-> One]>>)
    ELSE IF step.target = "machine"
    THEN IF missing_field(step.machine_id) THEN Raise("MissingField")
         ELSE LET machine == get_machine(p, step.machine_id)
              IN  IF ~machine.ok THEN machine
                  ELSE Ok(<<[machine |-> machine.value, share |-> One]>>)
    ELSE IF step.target = "group"
    THEN IF missing_field(step.group_id) THEN Raise("MissingField")
         ELSE LET machines == machines_in_group(p, step.group_id)
              IN  IF ~machines.ok THEN machines
                  ELSE LET allocation == normalize_allocation(machines.value, step.allocation)
                       IN  IF ~allocation.ok THEN allocation
                           ELSE LET shared == SelectSeq(machines.value,
                                        LAMBDA m : Get(allocation.value, m) # 0)
                                    resolved == [i \in 1..Len(shared) |->
                                        [machine |-> shared[i],
                                         share |-> allocation.value[shared[i]]]]
                                IN  IF resolved = <<>> THEN Raise("NoValidAllocation")
                                    ELSE Ok(resolved)
    ELSE unknown_target(step)

\* ------------------------------------------------------------ accumulators
scale_values(values, factor) == [key \in DOMAIN values |-> FMul(values[key], factor)]

\* faulty variant: zero values are stored as well
add_values_storing_zeros(map, values) ==
    [key \in DOMAIN map \cup DOMAIN values |->
        IF key \in DOMAIN values THEN FAdd(Get(map, key), values[key]) ELSE map[key]]

\* MachineUsage.add_capacity / add_resource_balance: zero values are skipped
add_values(map, values) ==
    [key \in DOMAIN map \cup {k \in DOMAIN values : values[k] # 0} |->
        IF key \in DOMAIN values /\ values[key] # 0
        THEN FAdd(Get(map, key), values[key])
        ELSE map[key]]

add_capacity(usage, values) ==
    [usage EXCEPT !.capacity_used = add_values(usage.capacity_used, values)]

add_resource_balance(usage, values) ==
    [usage EXCEPT !.resource_balance = add_values(usage.resource_balance, values)]

\* faulty variant: "d[key] = value" instead of "d[key] += value"
add_default_overwrite(map, values) ==
    [key \in DOMAIN map \cup DOMAIN values |->
        IF key \in DOMAIN values THEN values[key] ELSE map[key]]

\* defaultdict(float): "d[key] += value" creates the key even when value is 0
add_default(map, values) ==
    [key \in DOMAIN map \cup DOMAIN values |->
        IF key \in DOMAIN values THEN FAdd(Get(map, key), values[key]) ELSE map[key]]

MachineUsage(machine) ==
    [machine |-> machine, capacity_used |-> EmptyMap, resource_balance |-> EmptyMap]

DaySummary(date, product_quantities, machine_usage, resource_balance) ==
    [date |-> date, product_quantities |-> product_quantities,
     machine_usage |-> machine_usage, resource_balance |-> resource_balance]

\* faulty variant: an alert as soon as the limit is reached
over_capacity_or_at(capacity, key, used) ==
    /\ key \in DOMAIN capacity
    /\ capacity[key] # 0
    /\ (FGreater(used, capacity[key]) \/ used = capacity[key])

\* "capacity not in (None, 0) and used > capacity", capacity = machine.capacity.get(key)
over_capacity(capacity, key, used) ==
    /\ key \in DOMAIN capacity
    /\ capacity[key] # 0
    /\ FGreater(used, capacity[key])

\* DaySummary.capacity_alerts
capacity_alerts(p, day) ==
    LET usages == SelectSeq(p.machine_order, LAMBDA m : m \in DOMAIN day.machine_usage)
        exceeded(m) ==
            SelectSeq(KeysOf(day.machine_usage[m].capacity_used),
                LAMBDA key : over_capacity(p.machines[m].capacity, key,
                                           day.machine_usage[m].capacity_used[key]))
    IN  Concat([i \in 1..Len(usages) |->
            [j \in 1..Len(exceeded(usages[i])) |->
                [machine_id |-> day.machine_usage[usages[i]].machine,
                 machine_name |-> p.machines[day.machine_usage[usages[i]].machine].name,
                 capacity_key |-> exceeded(usages[i])[j],
                 used |-> day.machine_usage[usages[i]].capacity_used[exceeded(usages[i])[j]],
                 limit |-> p.machines[usages[i]].capacity[exceeded(usages[i])[j]]]]])

\* faulty variant: "totals[id] = value", the last day's value only
accumulate_overwrite(totals, values) ==
    [key \in DOMAIN totals \cup DOMAIN values |->
        IF key \in DOMAIN values THEN values[key] ELSE totals[key]]

\* "totals[id] = totals.get(id, 0.0) + value" for every item of a day's map
accumulate(totals, values) ==
    [key \in DOMAIN totals \cup DOMAIN values |->
        IF key \in DOMAIN values THEN FAdd(Get(totals, key), values[key]) ELSE totals[key]]

RECURSIVE overall_totals(_, _)
\* the loop of the two overall_* methods over self.days, field being the map of
\* the DaySummary it reads
overall_totals(days, field) ==
    IF days = <<>> THEN EmptyMap
    ELSE accumulate(overall_totals(SubSeq(days, 1, Len(days) - 1), field),
                    days[Len(days)][field])

\* SimulationResult.overall_resource_balance
overall_resource_balance(days) == overall_totals(days, "resource_balance")

\* SimulationResult.overall_product_quantities
overall_product_quantities(days) == overall_totals(days, "product_quantities")

RECURSIVE sorted_descending(_)
\* faulty variant: the latest date first
sorted_descending(dates) ==
    IF dates = {} THEN <<>>
    ELSE LET greatest == CHOOSE d \in dates : \A e \in dates : d >= e
         IN  <<greatest>> \o sorted_descending(dates \ {greatest})

RECURSIVE sorted(_)
\* sorted(orders_by_day.keys()): ascending dates
sorted(dates) ==
    IF dates = {} THEN <<>>
    ELSE LET least == CHOOSE d \in dates : \A e \in dates : d <= e
         IN  <<least>> \o sorted(dates \ {least})

\* ------------------------------------------------------- object identities
\* The objects that simulate creates are numbered in the order of their
\* creation: `heap` is the number of objects created so far, and a reference to
\* an object is its number.
\* A MachineUsage and its two maps, created one after the other
UsageRefs(heap) ==
    [usage |-> heap + 1, capacity_used |-> heap + 2, resource_balance |-> heap + 3]

\* the references of a day's maps: product_totals, machine_usage and
\* resource_balance, and for each machine of machine_usage its UsageRefs
DayRefs(product_quantities, machine_usage, resource_balance, usage) ==
    [product_quantities |-> product_quantities, machine_usage |-> machine_usage,
     resource_balance |-> resource_balance, usage |-> usage]

\* 0 is the reference to no object
NoRefs == DayRefs(0, 0, 0, EmptyMap)

\* ---------------------------------------------------------------- simulate
\* The locals of simulate(plant, plan) at one point of its loops.
\*   oi: the index in day_orders of the order being processed (0: none yet)
\*   si: the index in the product's steps of the step being processed
\*   mi: how many (machine, share) pairs of `machines` have been applied
SimStart ==
    [pc |-> "group", orders_by_day |-> EmptyMap, pending |-> <<>>, days |-> <<>>,
     current_day |-> 0, day_orders |-> <<>>, product_totals |-> EmptyMap,
     machine_usage |-> EmptyMap, resource_balance |-> EmptyMap,
     oi |-> 0, si |-> 0, machines |-> <<>>, mi |-> 0,
     error |-> None, result |-> <<>>,
     heap |-> 0, acc_refs |-> NoRefs, refs |-> <<>>]

\* an exception leaves simulate: its locals are gone and nothing is returned
SimFail(e) == [SimStart EXCEPT !.pc = "failed", !.error = e]

CurrentOrder(s) == s.day_orders[s.oi]
CurrentSteps(p, s) == IF s.oi = 0 THEN <<>> ELSE p.products[CurrentOrder(s).product_id]
MachinesLeft(s) == s.mi < Len(s.machines)
StepsLeft(p, s) == s.si < Len(CurrentSteps(p, s))
OrdersLeft(s) == s.oi < Len(s.day_orders)

\* faulty variant: "orders_by_day[order.date] = [order]", the last order of a date only
group_orders_last_only(s, orders) ==
    LET dates == {orders[i].date : i \in 1..Len(orders)}
        by_day == [d \in dates |->
                      <<orders[CHOOSE i \in 1..Len(orders) :
                            /\ orders[i].date = d
                            /\ \A j \in 1..Len(orders) : orders[j].date = d => j <= i]>>]
    IN  [s EXCEPT !.pc = "days", !.orders_by_day = by_day, !.pending = sorted(dates)]

\* lines 74-78
group_orders(s, orders) ==
    LET dates == {orders[i].date : i \in 1..Len(orders)}
        by_day == [d \in dates |-> SelectSeq(orders, LAMBDA o : o.date = d)]
    IN  [s EXCEPT !.pc = "days", !.orders_by_day = by_day, !.pending = sorted(dates)]

\* the machine_usage of the day before and its references, empty on the first day
LastUsage(s) == IF s.days = <<>> THEN EmptyMap ELSE s.days[Len(s.days)].machine_usage
LastRefs(s) == IF s.refs = <<>> THEN NoRefs ELSE s.refs[Len(s.refs)]

\* faulty variant: "machine_usage = {}" is missing, the day goes on with the
\* dict that line 100 bound to the name, the one of the day before
begin_day_keeping_accumulators(s) ==
    [s EXCEPT !.pc = "day", !.current_day = s.pending[1],
              !.pending = Tail(s.pending),
              !.day_orders = s.orders_by_day[s.pending[1]],
              !.product_totals = EmptyMap, !.machine_usage = LastUsage(s),
              !.resource_balance = EmptyMap,
              !.oi = 0, !.si = 0, !.machines = <<>>, !.mi = 0,
              !.heap = s.heap + 2,
              !.acc_refs = DayRefs(s.heap + 1, LastRefs(s).machine_usage, s.heap + 2,
                                   LastRefs(s).usage)]

\* lines 79-83: the three accumulators of a day are new objects
begin_day(s) ==
    [s EXCEPT !.pc = "day", !.current_day = s.pending[1],
              !.pending = Tail(s.pending),
              !.day_orders = s.orders_by_day[s.pending[1]],
              !.product_totals = EmptyMap, !.machine_usage = EmptyMap,
              !.resource_balance = EmptyMap,
              !.oi = 0, !.si = 0, !.machines = <<>>, !.mi = 0,
              !.heap = s.heap + 3,
              !.acc_refs = DayRefs(s.heap + 1, s.heap + 2, s.heap + 3, EmptyMap)]

\* faulty variant: "product_totals[product.id] = order.quantity"
add_product_total_overwrite(product_totals, product_id, quantity) ==
    [id \in DOMAIN product_totals \cup {product_id} |->
        IF id = product_id THEN quantity ELSE product_totals[id]]

\* "product_totals[product.id] += order.quantity" on a defaultdict(float)
add_product_total(product_totals, product_id, quantity) ==
    add_default(product_totals, [id \in {product_id} |-> quantity])

\* faulty variant: the machine of every order is looked up as well
begin_order_checking_machine(p, s) ==
    LET order == s.day_orders[s.oi + 1]
        product == get_product(p, order.product_id)
        machine == get_machine(p, order.machine_id)
    IN  IF ~product.ok THEN SimFail(product.err)
        ELSE IF ~machine.ok THEN SimFail(machine.err)
        ELSE [s EXCEPT !.oi = s.oi + 1, !.si = 0, !.machines = <<>>, !.mi = 0,
                       !.product_totals =
                           add_product_total(s.product_totals, product.value,
                                             order.quantity)]

\* lines 85-87
begin_order(p, s) ==
    LET order == s.day_orders[s.oi + 1]
        product == get_product(p, order.product_id)
    IN  IF ~product.ok THEN SimFail(product.err)
        ELSE [s EXCEPT !.oi = s.oi + 1, !.si = 0, !.machines = <<>>, !.mi = 0,
                       !.product_totals =
                           add_product_total(s.product_totals, product.value,
                                             order.quantity)]

\* faulty variant: a step that cannot be resolved is skipped
resolve_step_skipping_errors(p, s) ==
    LET machines == resolve_step_machines(CurrentSteps(p, s)[s.si + 1], CurrentOrder(s), p)
    IN  [s EXCEPT !.si = s.si + 1, !.mi = 0,
                  !.machines = IF machines.ok THEN machines.value ELSE <<>>]

\* lines 88-89
resolve_step(p, s) ==
    LET machines == resolve_step_machines(CurrentSteps(p, s)[s.si + 1], CurrentOrder(s), p)
    IN  IF ~machines.ok THEN SimFail(machines.err)
        ELSE [s EXCEPT !.si = s.si + 1, !.machines = machines.value, !.mi = 0]

\* faulty variant: the whole quantity for every machine of the step
quantity_factor_unshared(quantity, share) == quantity

\* "quantity_factor = order.quantity * share"
quantity_factor(quantity, share) == FMul(quantity, share)

\* lines 90-98
apply_contribution(p, s) ==
    LET step == CurrentSteps(p, s)[s.si]
        machine == s.machines[s.mi + 1].machine
        share == s.machines[s.mi + 1].share
        factor == quantity_factor(CurrentOrder(s).quantity, share)
        usage == IF machine \in DOMAIN s.machine_usage
                 THEN s.machine_usage[machine] ELSE MachineUsage(machine)
        capacity_add == scale_values(step.capacity_usage, factor)
        resource_add == scale_values(step.resource_changes, factor)
        updated == add_resource_balance(add_capacity(usage, capacity_add), resource_add)
        \* "setdefault(machine.id, MachineUsage(machine=machine))" creates a
        \* MachineUsage and keeps it when the machine has none yet
        usage_refs == IF machine \in DOMAIN s.acc_refs.usage
                      THEN s.acc_refs.usage[machine] ELSE UsageRefs(s.heap)
    IN  [s EXCEPT !.mi = s.mi + 1,
                  !.heap = s.heap + 3,
                  !.acc_refs.usage =
                      [m \in DOMAIN s.acc_refs.usage \cup {machine} |->
                          IF m = machine THEN usage_refs ELSE s.acc_refs.usage[m]],
                  !.machine_usage =
                      [m \in DOMAIN s.machine_usage \cup {machine} |->
                          IF m = machine THEN updated ELSE s.machine_usage[m]],
                  !.resource_balance = add_default(s.resource_balance, resource_add)]

\* the position of a machine in the iteration over machine_usage.items(): a
\* dict keeps the order of insertion, which is the order of the references
Position(usage, machine) ==
    Cardinality({m \in DOMAIN usage : usage[m].usage <= usage[machine].usage})

\* lines 100-107: a new dict of new MachineUsage objects, each with copies of
\* the accumulator's two maps
copy_usage_refs(usage, heap) ==
    [m \in DOMAIN usage |-> UsageRefs(heap + 1 + 3 * (Position(usage, m) - 1))]

\* lines 100-115
finish_day(s) ==
    LET n == Cardinality(DOMAIN s.acc_refs.usage)
    IN  [s EXCEPT !.pc = "days",
              !.days = Append(s.days, DaySummary(s.current_day, s.product_totals,
                                                 s.machine_usage, s.resource_balance)),
              !.current_day = 0, !.day_orders = <<>>, !.product_totals = EmptyMap,
              !.machine_usage = EmptyMap, !.resource_balance = EmptyMap,
              !.oi = 0, !.si = 0, !.machines = <<>>, !.mi = 0,
              !.heap = s.heap + 3 * n + 3,
              !.refs = Append(s.refs, DayRefs(s.heap + 3 * n + 2, s.heap + 1,
                                              s.heap + 3 * n + 3,
                                              copy_usage_refs(s.acc_refs.usage, s.heap))),
              !.acc_refs = NoRefs]

\* line 117
return_result(s) ==
    [SimStart EXCEPT !.pc = "done", !.result = <<s.days>>, !.refs = s.refs, !.heap = s.heap]

\* the next point of the loops of simulate
sim_step(p, orders, s) ==
    IF s.pc = "group" THEN group_orders(s, orders)
    ELSE IF s.pc = "days"
    THEN IF s.pending # <<>> THEN begin_day(s) ELSE return_result(s)
    ELSE IF MachinesLeft(s) THEN apply_contribution(p, s)
    ELSE IF StepsLeft(p, s) THEN resolve_step(p, s)
    ELSE IF OrdersLeft(s) THEN begin_order(p, s)
    ELSE finish_day(s)

RECURSIVE run(_, _, _)
run(p, orders, s) ==
    IF s.pc \in {"done", "failed"} THEN s ELSE run(p, orders, sim_step(p, orders, s))

\* simulate(plant, plan) as a function of its arguments
simulate(p, orders) == run(p, orders, SimStart)

\* --------------------------------------------------------- hourly series
\* "abs(value) > 1e-9": 1e-9 is below the smallest positive float of the model
\* and rounds to 0
DataThreshold == RoundToFloat(One, 1000000000)

\* the order of Python's sorted() on the ids of the model
Alphabet ==
    <<"A", "B", "C", "D", "E", "air", "kwh", "pb", "pg", "pn", "po", "pr", "pw", "px",
      "steam", "ton", "water">>
sorted_ids(ids) == SelectSeq(Alphabet, LAMBDA id : id \in ids)

\* datetime.combine(date, time.min) + timedelta(hours=hour)
timestamp(date, hour) == [date |-> date + (hour \div 24), hour |-> hour % 24]

\* faulty variant: every slot carries the whole total of the day
portion_undivided(total, slots_per_day) == total

\* "portion = total / slots_per_day"
portion(total, slots_per_day) == FDiv(total, FromInt(slots_per_day))

\* _hourly_points
hourly_points(day, total, slots_per_day) ==
    IF slots_per_day <= 0 THEN Raise("ValueError")
    ELSE Ok([h \in 1..slots_per_day |->
                [timestamp |-> timestamp(day.date, h - 1),
                 value |-> portion(total, slots_per_day)]])

\* sorted(days, key=lambda day: day.date), the dates of the days being distinct
sorted_by_date(days) ==
    LET dates == sorted({days[i].date : i \in 1..Len(days)})
    IN  [i \in 1..Len(dates) |-> days[CHOOSE j \in 1..Len(days) : days[j].date = dates[i]]]

HourlySeries(id, label, category, unit, points) ==
    [id |-> id, label |-> label, category |-> category, unit |-> unit, points |-> points]

\* _expand_daily_values: ids is the list of items; the four callables are the
\* functions id_getter and extractor (on <<day, item>>), label_getter, unit_getter
expand_daily_values(days, ids, id_getter, extractor, label_getter, unit_getter, category, slots_per_day) ==
    LET sorted_days == sorted_by_date(days)
        points(item) ==
            [i \in 1..Len(sorted_days) |->
                hourly_points(sorted_days[i], extractor[sorted_days[i], item], slots_per_day)]
        has_data(item) ==
            \E i \in 1..Len(sorted_days) :
                FGreater(Abs(extractor[sorted_days[i], item]), DataThreshold)
        with_data == SelectSeq(ids, has_data)
    IN  IF \E k \in 1..Len(ids) : \E i \in 1..Len(sorted_days) : ~points(ids[k])[i].ok
        THEN Raise("ValueError")
        ELSE Ok([k \in 1..Len(with_data) |->
                    HourlySeries(id_getter[with_data[k]], label_getter[with_data[k]],
                                 category, unit_getter[with_data[k]],
                                 Concat([i \in 1..Len(sorted_days) |->
                                            points(with_data[k])[i].value]))])

\* "x.name if x else id" and "x.unit or None" for a dict of named things
label_of(things, id) == IF id \in DOMAIN things THEN things[id].name ELSE id
unit_of(things, id) ==
    IF id \in DOMAIN things /\ things[id].unit # "" THEN things[id].unit ELSE None

hourly_resource_series(p, days, slots_per_day) ==
    LET resource_ids == DOMAIN p.resources
                        \cup UNION {DOMAIN days[i].resource_balance : i \in 1..Len(days)}
    IN  expand_daily_values(days, sorted_ids(resource_ids),
            [resource_id \in resource_ids |-> resource_id],
            [day \in Range(days), resource_id \in resource_ids |->
                Get(day.resource_balance, resource_id)],
            [resource_id \in resource_ids |-> label_of(p.resources, resource_id)],
            [resource_id \in resource_ids |-> unit_of(p.resources, resource_id)],
            "resource_balance", slots_per_day)

hourly_product_series(p, days, slots_per_day) ==
    LET product_ids == DOMAIN p.products
                       \cup UNION {DOMAIN days[i].product_quantities : i \in 1..Len(days)}
    IN  expand_daily_values(days, sorted_ids(product_ids),
            [product_id \in product_ids |-> product_id],
            [day \in Range(days), product_id \in product_ids |->
                Get(day.product_quantities, product_id)],
            [product_id \in product_ids |-> label_of(p.product_info, product_id)],
            [product_id \in product_ids |-> unit_of(p.product_info, product_id)],
            "product_output", slots_per_day)

\* the (machine_id, capacity_key) pairs of the days, as sorted() orders tuples
machine_capacity_ids(days) ==
    LET used == UNION {{<<m, key>> : key \in DOMAIN days[i].machine_usage[m].capacity_used} :
                          <<i, m>> \in {<<i, m>> \in (1..Len(days)) \X Range(Alphabet) :
                                            m \in DOMAIN days[i].machine_usage}}
    IN  Concat([a \in 1..Len(Alphabet) |->
            SelectSeq([b \in 1..Len(Alphabet) |-> <<Alphabet[a], Alphabet[b]>>],
                      LAMBDA pair : pair \in used)])

hourly_machine_capacity_series(p, days, slots_per_day) ==
    LET keys == Range(machine_capacity_ids(days))
    IN  expand_daily_values(days, machine_capacity_ids(days),
            [key \in keys |-> key[1] \o "::" \o key[2]],
            [day \in Range(days), key \in keys |->
                IF key[1] \notin DOMAIN day.machine_usage THEN 0
                ELSE Get(day.machine_usage[key[1]].capacity_used, key[2])],
            [key \in keys |->
                (IF key[1] \in DOMAIN p.machines THEN p.machines[key[1]].name ELSE key[1])
                \o " - " \o key[2]],
            [key \in keys |-> None],
            "machine_capacity", slots_per_day)

\* ------------------------------------------------------ plan validation
RECURSIVE join(_, _)
\* separator.join(lines)
join(separator, lines) ==
    IF lines = <<>> THEN ""
    ELSE IF Len(lines) = 1 THEN lines[1]
    ELSE lines[1] \o separator \o join(separator, Tail(lines))

\* faulty variant: an order with an unknown product is not asked for its machine
order_errors_first_only(p, o) ==
    IF o.product_id \notin DOMAIN p.products
    THEN <<"Produto desconhecido: " \o o.product_id>>
    ELSE IF o.machine_id \notin DOMAIN p.machines
    THEN <<"Equipamento desconhecido: " \o o.machine_id>>
    ELSE <<>>

\* the errors.append calls of one turn of the loop of validate
order_errors(p, o) ==
    (IF o.product_id \notin DOMAIN p.products
     THEN <<"Produto desconhecido: " \o o.product_id>> ELSE <<>>)
    \o (IF o.machine_id \notin DOMAIN p.machines
        THEN <<"Equipamento desconhecido: " \o o.machine_id>> ELSE <<>>)

\* faulty variant: no order is looked at
validate_nothing(orders, p) == Ok(None)

\* ProductionPlan.validate(plant): None, or ValueError("\n".join(errors))
validate(orders, p) ==
    LET errors == Concat([i \in 1..Len(orders) |-> order_errors(p, orders[i])])
    IN  IF errors # <<>>
        THEN [ok |-> FALSE, err |-> "ValueError", errors |-> errors,
              message |-> join("\n", errors)]
        ELSE Ok(None)

\* ------------------------------------------------------------ the inputs
Units(n) == n
Whole(n) == n * One

ThePlant ==
    [resources |->
        [r \in {"steam", "water", "air"} |->
            [name |-> "Resource " \o r, unit |-> IF r = "steam" THEN "t" ELSE ""]],
     product_info |->
        [id \in {"pg", "pw", "po", "pn", "pb", "pr"} |->
            [name |-> "Product " \o id, unit |-> IF id = "pn" THEN "" ELSE "t"]],
     machine_groups |-> {"g1", "g2", "g3"},
     machine_order |-> <<"A", "B", "C", "D", "E">>,
     machines |->
        [m \in {"A", "B", "C", "D", "E"} |->
            [name |-> "Machine " \o m,
             group_id |-> IF m = "D" THEN "g2" ELSE IF m = "E" THEN "g4" ELSE "g1",
             capacity |-> IF m = "A" THEN [k \in {"ton"} |-> Whole(1)]
                          ELSE IF m = "B" THEN [k \in {"ton"} |-> 0]
                          ELSE IF m = "D" THEN [k \in {"ton"} |-> Whole(2)]
                          ELSE EmptyMap]],
     products |->
        [id \in {"pg", "pw", "po", "pn", "pb", "pr"} |->
            IF id = "pb"
            THEN <<RecipeStep("mix", "machine", "A", None, None, NoAllocation,
                              [k \in {"ton"} |-> Units(64)],
                              [k \in {"water"} |-> -Whole(1)]),
                   RecipeStep("odd", "bogus", "A", "g1", None, NoAllocation,
                              [k \in {"ton"} |-> Whole(1)], EmptyMap)>>
            ELSE IF id = "pw"
            THEN <<RecipeStep("bleach", "group", None, "g1", None,
                              Allocation([m \in {"A", "B", "Z"} |->
                                  IF m = "A" THEN Whole(1) ELSE Whole(4)]),
                              [k \in {"ton", "kwh"} |-> IF k = "ton" THEN Whole(1) ELSE 0],
                              [k \in {"steam"} |-> -Units(7)])>>
            ELSE IF id = "pg"
            THEN <<RecipeStep("cook", "group", None, "g1", None, NoAllocation,
                              [k \in {"ton"} |-> Whole(1)],
                              [k \in {"steam", "water"} |->
                                  IF k = "steam" THEN -Whole(1) ELSE 0])>>
            ELSE IF id = "po"
            THEN <<RecipeStep("dry", "order_machine", None, None, None, NoAllocation,
                              [k \in {"ton"} |-> Whole(1)],
                              [k \in {"steam"} |-> Units(5)]),
                   RecipeStep("pack", "machine", "D", None, None, NoAllocation,
                              [k \in {"ton"} |-> Units(1)],
                              [k \in {"water"} |-> Whole(1)])>>
            ELSE IF id = "pr"
            THEN <<RecipeStep("press", "order_machine", None, None, "g2", NoAllocation,
                              [k \in {"ton"} |-> Whole(1)], EmptyMap),
                   RecipeStep("roll", "machine", "X", None, None, NoAllocation,
                              [k \in {"ton"} |-> Whole(1)], EmptyMap)>>
            ELSE <<>>]]

OrderPool ==
    {ProductionOrder(1, "pg", "A", Whole(1)),
     ProductionOrder(1, "po", "A", Whole(1)),
     ProductionOrder(1, "po", "D", Whole(3)),
     ProductionOrder(1, "pw", "A", Whole(1)),
     ProductionOrder(3, "pn", "A", Whole(1)),
     ProductionOrder(3, "pg", "A", 0),
     ProductionOrder(3, "pw", "A", Whole(2)),
     ProductionOrder(3, "po", "D", Units(3)),
     ProductionOrder(3, "po", "X", Whole(1)),
     ProductionOrder(3, "px", "X", Whole(1)),
     ProductionOrder(1, "pb", "A", 0),
     ProductionOrder(3, "pb", "D", Whole(1))}

RECURSIVE Plans(_)
Plans(n) ==
    IF n = 0 THEN {<<>>}
    ELSE Plans(n - 1) \cup
         {Append(pl, o) : pl \in {q \in Plans(n - 1) : Len(q) = n - 1}, o \in OrderPool}

\* orders that pass validate and fail in a recipe step, and the plans of the
\* command line: those of simulate and those with one of these orders
StepFailurePool ==
    {ProductionOrder(1, "pr", "A", Whole(1)), ProductionOrder(3, "pr", "D", Whole(1))}

MainPlans ==
    Plans(MaxOrders)
    \cup {<<o>> : o \in StepFailurePool}
    \cup {<<ProductionOrder(1, "pg", "A", Whole(1)), o>> : o \in StepFailurePool}

\* the calls of the resolver that are tried on their own
MachinePool == {"A", "B", "C", "Z"}
WeightPool == {-Whole(1), 0, Whole(1), Whole(4), Huge}
AllocationPool ==
    {NoAllocation} \cup
    {Allocation(map) : map \in UNION {[keys -> WeightPool] : keys \in SUBSET MachinePool}}

GroupSteps ==
    {RecipeStep("cook", "group", None, g, None, a, EmptyMap, EmptyMap) :
        g \in {None, "", "g1", "g2", "g3", "g4", "gx"}, a \in AllocationPool}
MachineSteps ==
    {RecipeStep("press", "machine", m, None, None, NoAllocation, EmptyMap, EmptyMap) :
        m \in {None, "", "A", "D", "X"}}
OrderMachineSteps ==
    {RecipeStep("dry", "order_machine", None, None, g, NoAllocation, EmptyMap, EmptyMap) :
        g \in {None, "", "g1", "g2", "gx"}}
OtherSteps ==
    {RecipeStep("odd", "bogus", None, None, None, NoAllocation, EmptyMap, EmptyMap)}
OrdersOnMachine == {ProductionOrder(1, "po", m, Whole(1)) : m \in {"A", "D", "X"}}

\* ------------------------------------------------------------ state machine
VARIABLES plant, plan, sim, alerts, overall, step, order, resolved, lookup, validation, hourly

vars == <<plant, plan, sim, alerts, overall, step, order, resolved, lookup, validation, hourly>>

NoStep == RecipeStep("", None, None, None, None, NoAllocation, EmptyMap, EmptyMap)
NoOrder == ProductionOrder(0, None, None, 0)
NoCall == /\ step = NoStep
          /\ order = NoOrder
          /\ resolved = Raise(None)

\* machines_in_group, validate and the hourly series have not been called
NoLookup == [group_id |-> None, result |-> Raise(None)]
NotValidated == Raise(None)
NoSeries == [kind |-> None, slots_per_day |-> 0, result |-> Raise(None)]
NoQuery == /\ lookup = NoLookup
           /\ validation = NotValidated
           /\ hourly = NoSeries

\* no DaySummary has been asked for its alerts yet
NoAlerts == [day |-> 0, value |-> <<>>]

\* neither of the two horizon totals has been asked for yet
NoTotals == [resource_balance |-> Raise(None), product_quantities |-> Raise(None)]

Init ==
    /\ plant = ThePlant
    /\ plan \in Plans(MaxOrders)
    /\ sim = SimStart
    /\ alerts = NoAlerts
    /\ overall = NoTotals
    /\ NoCall
    /\ NoQuery

GroupOrders ==
    /\ sim.pc = "group"
    /\ sim' = group_orders(sim, plan)
    /\ UNCHANGED <<plant, plan, alerts, overall, step, order, resolved, lookup, validation, hourly>>

BeginDay ==
    /\ sim.pc = "days" /\ sim.pending # <<>>
    /\ sim' = begin_day(sim)
    /\ UNCHANGED <<plant, plan, alerts, overall, step, order, resolved, lookup, validation, hourly>>

BeginOrder ==
    /\ sim.pc = "day" /\ ~MachinesLeft(sim) /\ ~StepsLeft(plant, sim) /\ OrdersLeft(sim)
    /\ sim' = begin_order(plant, sim)
    /\ UNCHANGED <<plant, plan, alerts, overall, step, order, resolved, lookup, validation, hourly>>

ResolveStep ==
    /\ sim.pc = "day" /\ ~MachinesLeft(sim) /\ StepsLeft(plant, sim)
    /\ sim' = resolve_step(plant, sim)
    /\ UNCHANGED <<plant, plan, alerts, overall, step, order, resolved, lookup, validation, hourly>>

ApplyContribution ==
    /\ sim.pc = "day" /\ MachinesLeft(sim)
    /\ sim' = apply_contribution(plant, sim)
    /\ UNCHANGED <<plant, plan, alerts, overall, step, order, resolved, lookup, validation, hourly>>

FinishDay ==
    /\ sim.pc = "day" /\ ~MachinesLeft(sim) /\ ~StepsLeft(plant, sim) /\ ~OrdersLeft(sim)
    /\ sim' = finish_day(sim)
    /\ UNCHANGED <<plant, plan, alerts, overall, step, order, resolved, lookup, validation, hourly>>

Return ==
    /\ sim.pc = "days" /\ sim.pending = <<>>
    /\ sim' = return_result(sim)
    /\ UNCHANGED <<plant, plan, alerts, overall, step, order, resolved, lookup, validation, hourly>>

\* result.days[i].capacity_alerts(), once simulate has returned
CapacityAlerts ==
    /\ sim.pc = "done" /\ alerts = NoAlerts
    /\ \E i \in 1..Len(sim.result[1]) :
          alerts' = [day |-> i, value |-> capacity_alerts(plant, sim.result[1][i])]
    /\ UNCHANGED <<plant, plan, sim, overall, step, order, resolved, lookup, validation, hourly>>

\* result.overall_resource_balance(), once simulate has returned
OverallResourceBalance ==
    /\ sim.pc = "done" /\ ~overall.resource_balance.ok
    /\ overall' = [overall EXCEPT !.resource_balance = Ok(overall_resource_balance(sim.result[1]))]
    /\ UNCHANGED <<plant, plan, sim, alerts, step, order, resolved, lookup, validation, hourly>>

\* result.overall_product_quantities(), once simulate has returned
OverallProductQuantities ==
    /\ sim.pc = "done" /\ ~overall.product_quantities.ok
    /\ overall' = [overall EXCEPT !.product_quantities = Ok(overall_product_quantities(sim.result[1]))]
    /\ UNCHANGED <<plant, plan, sim, alerts, step, order, resolved, lookup, validation, hourly>>

Next ==
    \/ GroupOrders
    \/ BeginDay
    \/ BeginOrder
    \/ ResolveStep
    \/ ApplyContribution
    \/ FinishDay
    \/ Return
    \/ CapacityAlerts
    \/ OverallResourceBalance
    \/ OverallProductQuantities

Spec == Init /\ [][Next]_vars

\* one call of _resolve_step_machines(step, order, plant), on its own
InitResolve ==
    /\ plant = ThePlant
    /\ plan = <<>>
    /\ sim = SimStart
    /\ alerts = NoAlerts
    /\ overall = NoTotals
    /\ \/ step \in GroupSteps \cup MachineSteps \cup OtherSteps
          /\ order = ProductionOrder(1, "po", "A", Whole(1))
       \/ step \in OrderMachineSteps /\ order \in OrdersOnMachine
       \/ step = NoStep /\ order = NoOrder
    /\ resolved = Raise(None)
    /\ NoQuery

Resolve ==
    /\ step # NoStep
    /\ resolved = Raise(None)
    /\ resolved' = resolve_step_machines(step, order, plant)
    /\ UNCHANGED <<plant, plan, sim, alerts, overall, step, order, lookup, validation, hourly>>

GroupIdPool == {"g1", "g2", "g3", "g4", "gx", ""}

\* one call of plant.machines_in_group(group_id), on its own
MachinesInGroup ==
    /\ step = NoStep
    /\ lookup = NoLookup
    /\ \E g \in GroupIdPool :
          lookup' = [group_id |-> g, result |-> machines_in_group(plant, g)]
    /\ UNCHANGED <<plant, plan, sim, alerts, overall, step, order, resolved, validation, hourly>>

NextResolve ==
    \/ Resolve
    \/ MachinesInGroup

SpecResolve == InitResolve /\ [][NextResolve]_vars

\* cli.main and streamlit_app.main: the plan is validated, then simulated; an
\* error of either ends the command, so simulate is called only after validate
\* returned; the hourly series are built from the result
InitMain ==
    /\ plant = ThePlant
    /\ plan \in MainPlans
    /\ sim = SimStart
    /\ alerts = NoAlerts
    /\ overall = NoTotals
    /\ NoCall
    /\ NoQuery

Validate ==
    /\ validation = NotValidated
    /\ validation' = validate(plan, plant)
    /\ UNCHANGED <<plant, plan, sim, alerts, overall, step, order, resolved, lookup, hourly>>

Simulate ==
    /\ validation = Ok(None)
    /\ sim.pc = "group"
    /\ sim' = simulate(plant, plan)
    /\ UNCHANGED <<plant, plan, alerts, overall, step, order, resolved, lookup, validation, hourly>>

SlotsPool == (-1)..MaxSlots

\* hourly_resource_series(result, slots_per_day), once simulate has returned
HourlyResourceSeries ==
    /\ sim.pc = "done" /\ hourly = NoSeries
    /\ \E n \in SlotsPool :
          hourly' = [kind |-> "resource_balance", slots_per_day |-> n,
                     result |-> hourly_resource_series(plant, sim.result[1], n)]
    /\ UNCHANGED <<plant, plan, sim, alerts, overall, step, order, resolved, lookup, validation>>

\* hourly_product_series(result, slots_per_day), once simulate has returned
HourlyProductSeries ==
    /\ sim.pc = "done" /\ hourly = NoSeries
    /\ \E n \in SlotsPool :
          hourly' = [kind |-> "product_output", slots_per_day |-> n,
                     result |-> hourly_product_series(plant, sim.result[1], n)]
    /\ UNCHANGED <<plant, plan, sim, alerts, overall, step, order, resolved, lookup, validation>>

\* hourly_machine_capacity_series(result, slots_per_day), once simulate has returned
HourlyMachineCapacitySeries ==
    /\ sim.pc = "done" /\ hourly = NoSeries
    /\ \E n \in SlotsPool :
          hourly' = [kind |-> "machine_capacity", slots_per_day |-> n,
                     result |-> hourly_machine_capacity_series(plant, sim.result[1], n)]
    /\ UNCHANGED <<plant, plan, sim, alerts, overall, step, order, resolved, lookup, validation>>

NextMain ==
    \/ Validate
    \/ Simulate
    \/ HourlyResourceSeries
    \/ HourlyProductSeries
    \/ HourlyMachineCapacitySeries

SpecMain == InitMain /\ [][NextMain]_vars

\* ------------------------------------------------------ derived quantities
\* the DaySummary values simulate has built so far, and those it returned
DaysOf(s) == IF s.result # <<>> THEN s.result[1] ELSE s.days
Returned == sim.pc = "done"

ResourceKeys(machine_usage, resource_balance) ==
    DOMAIN resource_balance
        \cup UNION {DOMAIN machine_usage[m].resource_balance : m \in DOMAIN machine_usage}

\* sum(usage.resource_balance.get(r, 0.0) for usage in machine_usage.values())
usage_sum(p, machine_usage, r) ==
    LET present == SelectSeq(p.machine_order, LAMBDA m : m \in DOMAIN machine_usage)
    IN  FSum([i \in 1..Len(present) |-> Get(machine_usage[present[i]].resource_balance, r)])

Conserved(p, machine_usage, resource_balance) ==
    \A r \in ResourceKeys(machine_usage, resource_balance) :
        usage_sum(p, machine_usage, r) = Get(resource_balance, r)

\* C1 as stated: the machines' balances add up to exactly the day's balance,
\* in every DaySummary and after every contribution of a day's aggregation.
C1_ExactConservation ==
    /\ sim.pc = "day" => Conserved(plant, sim.machine_usage, sim.resource_balance)
    /\ \A i \in 1..Len(DaysOf(sim)) :
          Conserved(plant, DaysOf(sim)[i].machine_usage, DaysOf(sim)[i].resource_balance)

\* ------------------------------------------- contributions, as a flat list
\* one record per (order, step, machine) triple of the orders, in the order of
\* the three nested loops (an order or a step that fails contributes nothing)
StepContribs(p, o, st) ==
    LET pairs == resolve_step_machines(st, o, p)
    IN  IF ~pairs.ok THEN <<>>
        ELSE [i \in 1..Len(pairs.value) |->
                 [order |-> o, step |-> st, machine |-> pairs.value[i].machine,
                  share |-> pairs.value[i].share]]

OrderContribs(p, o) ==
    IF o.product_id \notin DOMAIN p.products THEN <<>>
    ELSE Concat([j \in 1..Len(p.products[o.product_id]) |->
                    StepContribs(p, o, p.products[o.product_id][j])])

Contribs(p, orders) == Concat([i \in 1..Len(orders) |-> OrderContribs(p, orders[i])])

OrdersOn(orders, d) == SelectSeq(orders, LAMBDA o : o.date = d)

\* the amount a contribution adds for `key` of the step's map `field`
\* ("capacity_usage" or "resource_changes"): quantity * share * per-unit value
Amount(c, field, key) == FMul(FMul(c.order.quantity, c.share), Get(c.step[field], key))

\* the amounts the contributions add for `key`, restricted to `machines`
Amounts(contribs, machines, field, key) ==
    LET sel == SelectSeq(contribs,
                   LAMBDA c : c.machine \in machines /\ key \in DOMAIN c.step[field])
    IN  [i \in 1..Len(sel) |-> Amount(sel[i], field, key)]

RECURSIVE AbsSum(_)
AbsSum(values) == IF values = <<>> THEN 0 ELSE Abs(values[1]) + AbsSum(Tail(values))

\* a and b are two floating-point sums of the same n terms, of absolute sum mag,
\* added in different orders: they differ by at most 2 * gamma(n) * mag, where
\* gamma(n) = n * u / (1 - n * u) and u = 2^-Precision is the unit roundoff
Close(a, b, n, mag) ==
    /\ n < Pow2(Precision)
    /\ Abs(a - b) * (Pow2(Precision) - n) <= 2 * n * mag

ConservedUpToRounding(p, orders, machine_usage, resource_balance) ==
    LET contribs == Contribs(p, orders)
    IN  \A r \in ResourceKeys(machine_usage, resource_balance) :
        LET terms == Amounts(contribs, DOMAIN p.machines, "resource_changes", r)
        IN  Close(usage_sum(p, machine_usage, r), Get(resource_balance, r),
                  Len(terms) + Len(p.machine_order), AbsSum(terms))

\* C1 (amended): in every DaySummary, and after every contribution of a day's
\* aggregation, the machines' balances of a resource add up to the day's balance
\* of that resource up to the rounding error of the floating-point additions.
C1_ConservationUpToRounding ==
    /\ sim.pc = "day" =>
          ConservedUpToRounding(plant, sim.day_orders, sim.machine_usage, sim.resource_balance)
    /\ \A i \in 1..Len(DaysOf(sim)) :
          ConservedUpToRounding(plant, OrdersOn(plan, DaysOf(sim)[i].date),
                                DaysOf(sim)[i].machine_usage, DaysOf(sim)[i].resource_balance)

\* a returned day in which two machines hold a balance of the same resource
C1_Witness ==
    /\ Returned
    /\ \E i \in 1..Len(DaysOf(sim)) : \E r \in DOMAIN DaysOf(sim)[i].resource_balance :
          Cardinality({m \in DOMAIN DaysOf(sim)[i].machine_usage :
              Get(DaysOf(sim)[i].machine_usage[m].resource_balance, r) # 0}) >= 2

\* -------------------------------------------------------- resolver results
Resolved == resolved.ok
Shares == [i \in 1..Len(resolved.value) |-> resolved.value[i].share]
ResolvedMachines == [i \in 1..Len(resolved.value) |-> resolved.value[i].machine]
ShareOf(m) ==
    IF \E i \in 1..Len(resolved.value) : resolved.value[i].machine = m
    THEN resolved.value[CHOOSE i \in 1..Len(resolved.value) : resolved.value[i].machine = m].share
    ELSE 0
Group == machines_by_group(plant)[step.group_id]
GroupResolved == Resolved /\ step.target = "group"
EvenSplit == step.allocation.none \/ DOMAIN step.allocation.map = {}
Matched == {m \in Range(Group) : m \in DOMAIN step.allocation.map}
MatchedWeights ==
    LET matched == SelectSeq(Group, LAMBDA m : m \in DOMAIN step.allocation.map)
    IN  [i \in 1..Len(matched) |-> step.allocation.map[matched[i]]]

RECURSIVE Sum(_)
Sum(values) == IF values = <<>> THEN 0 ELSE values[1] + Sum(Tail(values))

\* C2 as stated: the fractions of a resolved group step sum to exactly 1,
\* as Python's sum() adds them.
C2_FractionsSumToExactlyOne ==
    GroupResolved => FSum(Shares) = One

\* C2 (amended): the fractions of a resolved group step sum to 1 within the
\* rounding error of the weights' total, the divisions and the summation.
C2_FractionsSumToOneWithinTolerance ==
    GroupResolved =>
        /\ Close(FSum(Shares), One, 2 * Len(Group), One)
        /\ Close(Sum(Shares), One, 2 * Len(Group), One)

\* the three ways a group step resolves: even split, weights, zero-sum fallback
C2_Witness ==
    /\ GroupResolved /\ ~EvenSplit /\ Len(Shares) = 3
    /\ Sum(MatchedWeights) > 0
    /\ Sum(Shares) # One

\* C3: with no allocation (None or an empty map) a group step resolves to one
\* pair for every machine of the group, in the group's order, each with the
\* fraction 1/N, N the size of the group.
C3_EvenSplit ==
    (/\ resolved # Raise(None)
     /\ step.target = "group"
     /\ step.group_id \in DOMAIN machines_by_group(plant)
     /\ Group # <<>>
     /\ EvenSplit) =>
        /\ Resolved
        /\ ResolvedMachines = Group
        /\ \A i \in 1..Len(Shares) : Shares[i] = FDiv(One, FromInt(Len(Group)))

\* an empty allocation map on the group of three machines
C3_Witness ==
    /\ GroupResolved /\ ~step.allocation.none /\ DOMAIN step.allocation.map = {}
    /\ Len(Group) = 3 /\ Len(Shares) = 3

\* the step names a group with machines and its allocation names one of them,
\* with no negative weight for a machine of the group
ExplicitAllocation ==
    /\ resolved # Raise(None)
    /\ step.target = "group"
    /\ step.group_id \in DOMAIN machines_by_group(plant)
    /\ Group # <<>>
    /\ ~EvenSplit
    /\ Matched # {}
    /\ \A m \in Matched : step.allocation.map[m] >= 0

\* C4: when the matched weights have a positive sum, every machine of the group
\* with an allocation entry receives weight / (sum of the matched weights), the
\* machines of the group with no entry are not in the list, and the entries of
\* machines outside the group count for nothing.
C4_ExplicitAllocation ==
    (ExplicitAllocation /\ Sum(MatchedWeights) > 0) =>
        /\ Resolved
        /\ \A m \in Matched :
              ShareOf(m) = FDiv(step.allocation.map[m], FSum(MatchedWeights))
        /\ Range(ResolvedMachines) \subseteq Matched
        /\ \A i, j \in 1..Len(ResolvedMachines) :
              ResolvedMachines[i] = ResolvedMachines[j] => i = j

AlertedDay == sim.result[1][alerts.day]
AlertsFor(m, key) ==
    {j \in 1..Len(alerts.value) :
        alerts.value[j].machine_id = m /\ alerts.value[j].capacity_key = key}
OverLimit(m, key) ==
    /\ key \in DOMAIN plant.machines[m].capacity
    /\ plant.machines[m].capacity[key] # 0
    /\ AlertedDay.machine_usage[m].capacity_used[key] > plant.machines[m].capacity[key]

\* C6: capacity_alerts gives one alert for each (machine, key) of the day's usage
\* whose limit is declared, not zero and exceeded, and no other alert; each alert
\* carries the machine's id and name, the key, the used amount and the limit.
C6_CapacityAlerts ==
    alerts.day > 0 =>
        /\ \A m \in DOMAIN AlertedDay.machine_usage :
              \A key \in DOMAIN AlertedDay.machine_usage[m].capacity_used :
                  Cardinality(AlertsFor(m, key)) = IF OverLimit(m, key) THEN 1 ELSE 0
        /\ \A j \in 1..Len(alerts.value) :
              LET a == alerts.value[j]
              IN  /\ a.machine_id \in DOMAIN AlertedDay.machine_usage
                  /\ a.capacity_key \in
                         DOMAIN AlertedDay.machine_usage[a.machine_id].capacity_used
                  /\ a.machine_name = plant.machines[a.machine_id].name
                  /\ a.used = AlertedDay.machine_usage[a.machine_id].capacity_used[a.capacity_key]
                  /\ a.limit = plant.machines[a.machine_id].capacity[a.capacity_key]

\* a day with an alert, a machine used exactly to its limit and a machine used
\* under a limit of 0
C6_Witness ==
    /\ alerts.day > 0 /\ alerts.value # <<>>
    /\ \E m \in DOMAIN AlertedDay.machine_usage :
          /\ "ton" \in DOMAIN AlertedDay.machine_usage[m].capacity_used
          /\ "ton" \in DOMAIN plant.machines[m].capacity
          /\ AlertedDay.machine_usage[m].capacity_used["ton"] = plant.machines[m].capacity["ton"]
          /\ AlertsFor(m, "ton") = {}

\* ------------------------------------------------------- order independence
Orderings(n) == {f \in [1..n -> 1..n] : \A i, j \in 1..n : f[i] = f[j] => i = j}
Permuted(orders, f) == [i \in 1..Len(orders) |-> orders[f[i]]]

\* two dicts with the same keys, whose values are sums of the same terms
CloseMaps(a, b, Terms(_)) ==
    /\ DOMAIN a = DOMAIN b
    /\ \A key \in DOMAIN a : Close(a[key], b[key], Len(Terms(key)), AbsSum(Terms(key)))

Quantities(orders, product_id) ==
    LET sel == SelectSeq(orders, LAMBDA o : o.product_id = product_id)
    IN  [i \in 1..Len(sel) |-> sel[i].quantity]

CloseDay(p, orders, a, b) ==
    LET contribs == Contribs(p, orders)
        AllTerms(r) == Amounts(contribs, DOMAIN p.machines, "resource_changes", r)
        OrderTerms(id) == Quantities(orders, id)
    IN  /\ a.date = b.date
        /\ CloseMaps(a.product_quantities, b.product_quantities, OrderTerms)
        /\ CloseMaps(a.resource_balance, b.resource_balance, AllTerms)
        /\ DOMAIN a.machine_usage = DOMAIN b.machine_usage
        /\ \A m \in DOMAIN a.machine_usage :
              LET Used(key) == Amounts(contribs, {m}, "capacity_usage", key)
                  Balance(r) == Amounts(contribs, {m}, "resource_changes", r)
              IN  /\ a.machine_usage[m].machine = b.machine_usage[m].machine
                  /\ CloseMaps(a.machine_usage[m].capacity_used,
                               b.machine_usage[m].capacity_used, Used)
                  /\ CloseMaps(a.machine_usage[m].resource_balance,
                               b.machine_usage[m].resource_balance, Balance)

\* simulate has just returned: the result is compared once, before any query
\* reads it (no query changes it)
JustReturned == Returned /\ alerts = NoAlerts /\ overall = NoTotals

\* C7 as stated: every permutation of the orders gives the same DaySummary values.
C7_SameDaysForEveryPermutation ==
    JustReturned =>
        \A f \in Orderings(Len(plan)) :
            simulate(plant, Permuted(plan, f)).result = sim.result

\* C7 (amended): every permutation of the orders gives the same dates in the same
\* order and the same keys in every map of every day; the values agree up to the
\* rounding error of the floating-point additions, which the order of the orders
\* changes.
C7_SameDaysUpToRounding ==
    JustReturned =>
        \A f \in Orderings(Len(plan)) :
            LET other == simulate(plant, Permuted(plan, f))
            IN  /\ other.pc = "done"
                /\ Len(other.result[1]) = Len(sim.result[1])
                /\ \A i \in 1..Len(sim.result[1]) :
                      CloseDay(plant, OrdersOn(plan, sim.result[1][i].date),
                               sim.result[1][i], other.result[1][i])

\* two different orders of one day that both use machine A
C7_Witness ==
    /\ JustReturned
    /\ Len(plan) = 2
    /\ plan[1].date = plan[2].date
    /\ plan[1].product_id = "pg" /\ plan[2].product_id = "po"
    /\ plan[1].quantity # 0 /\ plan[2].machine_id = "A"
    /\ Len(sim.result[1]) = 1

\* ------------------------------------------------------ chronological order
PlanDates == {plan[i].date : i \in 1..Len(plan)}

\* C8: the days of the result are strictly ascending by date, one for each date
\* an order has and none for any other date; each date is begun once, in
\* ascending order; an empty plan gives no day.
C8_ChronologicalDays ==
    /\ \A i, j \in 1..Len(DaysOf(sim)) :
          i < j => DaysOf(sim)[i].date < DaysOf(sim)[j].date
    /\ \A i \in 1..Len(DaysOf(sim)) :
          /\ DaysOf(sim)[i].date \in PlanDates
          /\ sim.pc = "day" => DaysOf(sim)[i].date < sim.current_day
          /\ \A j \in 1..Len(sim.pending) : DaysOf(sim)[i].date < sim.pending[j]
    /\ \A j \in 1..Len(sim.pending) : sim.pc = "day" => sim.current_day < sim.pending[j]
    /\ Returned =>
          /\ {sim.result[1][i].date : i \in 1..Len(sim.result[1])} = PlanDates
          /\ Len(sim.result[1]) = Cardinality(PlanDates)
          /\ plan = <<>> => sim.result[1] = <<>>

\* the later date comes first in the plan, and the date between the two has no day
C8_Witness ==
    /\ Returned
    /\ Len(plan) >= 2 /\ plan[1].date = 3 /\ plan[2].date = 1
    /\ Len(sim.result[1]) = 2
    /\ sim.result[1][1].date = 1 /\ sim.result[1][2].date = 3

\* ------------------------------------------------------ aggregation formula
StepsOf(p) == UNION {Range(p.products[id]) : id \in DOMAIN p.products}
CapacityKeys(p) == UNION {DOMAIN st.capacity_usage : st \in StepsOf(p)}
ResourceIds(p) == UNION {DOMAIN st.resource_changes : st \in StepsOf(p)}

UsageOf(day, m) ==
    IF m \in DOMAIN day.machine_usage THEN day.machine_usage[m] ELSE MachineUsage(m)

Aggregated(p, orders, day) ==
    LET contribs == Contribs(p, orders)
    IN  \A m \in DOMAIN p.machines \cup DOMAIN day.machine_usage :
        /\ \A key \in CapacityKeys(p) \cup DOMAIN UsageOf(day, m).capacity_used :
              Get(UsageOf(day, m).capacity_used, key)
                  = FSum(Amounts(contribs, {m}, "capacity_usage", key))
        /\ \A r \in ResourceIds(p) \cup DOMAIN UsageOf(day, m).resource_balance :
              Get(UsageOf(day, m).resource_balance, r)
                  = FSum(Amounts(contribs, {m}, "resource_changes", r))

\* C9: in the DaySummary of a date, a machine's capacity_used[k] is the sum, over
\* the orders of the date, the steps of their products and the (machine, fraction)
\* pairs of the steps, of quantity * fraction * capacity_usage[k], and its
\* resource_balance[r] the same sum of quantity * fraction * resource_changes[r]
\* (a key that is absent counts as 0).
C9_AggregationFormula ==
    \A i \in 1..Len(DaysOf(sim)) :
        Aggregated(plant, OrdersOn(plan, DaysOf(sim)[i].date), DaysOf(sim)[i])

\* a returned day in which machine A has a third of one order and all of another
C9_Witness ==
    /\ Returned
    /\ \E i \in 1..Len(sim.result[1]) :
          LET mine == SelectSeq(Contribs(plant, OrdersOn(plan, sim.result[1][i].date)),
                                LAMBDA c : c.machine = "A")
          IN  /\ Len(mine) = 2
              /\ mine[1].share # One /\ mine[2].share = One
              /\ mine[1].order.quantity # 0
              /\ "ton" \in DOMAIN sim.result[1][i].machine_usage["A"].capacity_used

\* ------------------------------------------------------ daily product totals
\* C10: the product_quantities of the DaySummary of a date has a key for exactly
\* the products ordered on that date, and each value is the sum of the quantities
\* of the date's orders of that product.
C10_ProductQuantities ==
    \A i \in 1..Len(DaysOf(sim)) :
        LET day == DaysOf(sim)[i]
            orders == OrdersOn(plan, day.date)
        IN  /\ DOMAIN day.product_quantities = {orders[j].product_id : j \in 1..Len(orders)}
            /\ \A id \in DOMAIN day.product_quantities :
                  day.product_quantities[id] = FSum(Quantities(orders, id))

\* a day with an order of quantity 0 and an order of a product with no steps
C10_Witness ==
    /\ Returned
    /\ \E i \in 1..Len(sim.result[1]) :
          /\ DOMAIN sim.result[1][i].product_quantities = {"pg", "pn"}
          /\ sim.result[1][i].product_quantities["pg"] = 0
          /\ sim.result[1][i].product_quantities["pn"] = Whole(1)
          /\ sim.result[1][i].machine_usage # EmptyMap

\* ------------------------------------------------------------ horizon totals
\* totals is the sum, day after day, of the maps `field` of the days, with a key
\* for exactly the ids of those maps
TotalsOf(totals, days, field) ==
    /\ DOMAIN totals = UNION {DOMAIN days[i][field] : i \in 1..Len(days)}
    /\ \A id \in DOMAIN totals :
          totals[id] = FSum([i \in 1..Len(days) |-> Get(days[i][field], id)])

HorizonTotals ==
    /\ overall.resource_balance.ok =>
          TotalsOf(overall.resource_balance.value, sim.result[1], "resource_balance")
    /\ overall.product_quantities.ok =>
          TotalsOf(overall.product_quantities.value, sim.result[1], "product_quantities")

\* C11: overall_resource_balance()[r] is the sum over the days of
\* day.resource_balance[r] and overall_product_quantities()[p] the sum over the
\* days of day.product_quantities[p]; each map has a key for exactly the ids
\* that appear in at least one day; and computing them leaves the result as it was.
C11_HorizonTotals ==
    /\ []HorizonTotals
    /\ [][overall' # overall => sim' = sim /\ sim.pc = "done"]_vars

\* both totals of a result of two days that share a resource, one of the days
\* having a resource the other has not
C11_Witness ==
    /\ overall.resource_balance.ok /\ overall.product_quantities.ok
    /\ Len(sim.result[1]) = 2
    /\ \E r \in DOMAIN sim.result[1][1].resource_balance :
          /\ r \in DOMAIN sim.result[1][2].resource_balance
          /\ sim.result[1][1].resource_balance[r] # 0
          /\ sim.result[1][2].resource_balance[r] # 0
    /\ DOMAIN sim.result[1][1].resource_balance # DOMAIN sim.result[1][2].resource_balance
    /\ DOMAIN overall.product_quantities.value # {}

\* ------------------------------------------------------------------ failures
Taxonomy ==
    {"NotFound", "EmptyGroup", "MissingField", "GroupMismatch", "NegativeAllocation",
     "NoMatchingAllocation", "UnknownTarget"}

\* the orders in the order simulate processes them: date after date, and within
\* a date in the order of the plan
Processed(orders) ==
    LET dates == sorted({orders[i].date : i \in 1..Len(orders)})
    IN  Concat([i \in 1..Len(dates) |-> OrdersOn(orders, dates[i])])

\* the first element of errors that is an error, None when there is none
FirstOf(errors) ==
    IF \E i \in 1..Len(errors) : errors[i] # None
    THEN errors[CHOOSE i \in 1..Len(errors) :
                    errors[i] # None /\ \A j \in 1..(i - 1) : errors[j] = None]
    ELSE None

\* the error that processing the order o raises, None when it raises none
OrderError(p, o) ==
    IF o.product_id \notin DOMAIN p.products THEN "NotFound"
    ELSE FirstOf([j \in 1..Len(p.products[o.product_id]) |->
             LET pairs == resolve_step_machines(p.products[o.product_id][j], o, p)
             IN  IF pairs.ok THEN None ELSE pairs.err])

FirstError(p, orders) ==
    FirstOf([i \in 1..Len(Processed(orders)) |-> OrderError(p, Processed(orders)[i])])

\* C12: when processing an order raises an error of the taxonomy, simulate ends
\* with the error of the first such order and returns nothing: no SimulationResult,
\* no DaySummary of an earlier date, nothing a query could read.
C12_FailFast ==
    /\ sim.pc = "failed" =>
          /\ sim.error = FirstError(plant, plan)
          /\ sim.error \in Taxonomy
          /\ sim = SimFail(sim.error)
          /\ alerts = NoAlerts /\ overall = NoTotals
    /\ FirstError(plant, plan) # None =>
          /\ sim.pc # "done"
          /\ sim.result = <<>>
          /\ sim.pc = "group" => simulate(plant, plan) = SimFail(FirstError(plant, plan))

\* the order of the later date fails after the day of the earlier date was
\* aggregated with success
C12_Witness ==
    /\ sim.pc = "failed"
    /\ Len(plan) = 2 /\ plan[1].date = 3 /\ plan[2].date = 1
    /\ OrderError(plant, plan[1]) # None
    /\ OrderError(plant, plan[2]) = None
    /\ Contribs(plant, <<plan[2]>>) # <<>>

\* a step on a group with machines and with an allocation that is not empty
\* has been given to the resolver
ExplicitCall ==
    /\ resolved # Raise(None)
    /\ step.target = "group"
    /\ step.group_id \in DOMAIN machines_by_group(plant)
    /\ Group # <<>>
    /\ ~EvenSplit

\* C13: for a group step with an allocation that is not empty, the resolver
\* fails with NegativeAllocation when a machine of the group has a negative
\* weight, otherwise with NoMatchingAllocation when no key of the allocation is
\* a machine of the group, and otherwise it succeeds.
C13_ExplicitAllocationOutcome ==
    ExplicitCall =>
        IF \E m \in Matched : step.allocation.map[m] < 0
        THEN resolved = Raise("NegativeAllocation")
        ELSE IF Matched = {}
        THEN resolved = Raise("NoMatchingAllocation")
        ELSE Resolved

\* ------------------------------------------------- single-machine resolution
\* the one pair of a step that runs on one machine
Single(machine) == Ok(<<[machine |-> machine, share |-> One]>>)

\* C14: a step of target order_machine resolves to exactly [(the order's
\* machine, 1)] when required_group is unset or is the group of that machine,
\* fails with GroupMismatch when required_group is set and is another group,
\* and fails with NotFound when the order's machine is not in the plant.
C14_OrderMachine ==
    (resolved # Raise(None) /\ step.target = "order_machine") =>
        IF order.machine_id \notin DOMAIN plant.machines
        THEN resolved = Raise("NotFound")
        ELSE IF \/ ~Truthy(step.required_group)
                \/ step.required_group = plant.machines[order.machine_id].group_id
        THEN resolved = Single(order.machine_id)
        ELSE resolved = Raise("GroupMismatch")

\* the order is on machine D of group g2 and the step requires group g1
C14_Witness ==
    /\ step.target = "order_machine" /\ step.required_group = "g1"
    /\ order.machine_id = "D"
    /\ resolved = Raise("GroupMismatch")

\* ------------------------------------------------------------ unknown target
KnownTargets == {"group", "machine", "order_machine"}

\* the indices of the steps of o's product whose target is not a known one
UnknownSteps(p, o) ==
    IF o.product_id \notin DOMAIN p.products THEN {}
    ELSE {j \in 1..Len(p.products[o.product_id]) :
             p.products[o.product_id][j].target \notin KnownTargets}

\* simulate gets as far as a step of unknown target: the orders before it raise
\* nothing, and neither do the steps before it in its own order
ReachesUnknownTarget(p, orders) ==
    \E k \in 1..Len(Processed(orders)) :
        LET o == Processed(orders)[k]
        IN  /\ UnknownSteps(p, o) # {}
            /\ \A i \in 1..(k - 1) : OrderError(p, Processed(orders)[i]) = None
            /\ \E j \in UnknownSteps(p, o) :
                  \A h \in 1..(j - 1) :
                      resolve_step_machines(p.products[o.product_id][h], o, p).ok

\* C15: when simulate comes to an order of a product with a step of unknown
\* target, nothing having failed before that step, it fails with UnknownTarget,
\* whatever the quantity of the order, 0 included.
C15_UnknownTarget ==
    ReachesUnknownTarget(plant, plan) =>
        /\ sim.pc # "done"
        /\ sim.pc = "failed" => sim.error = "UnknownTarget"
        /\ sim.pc = "group" => simulate(plant, plan) = SimFail("UnknownTarget")

\* the first order processed has quantity 0 and its product a step of unknown
\* target after a step that resolves
C15_Witness ==
    /\ sim.pc = "failed" /\ sim.error = "UnknownTarget"
    /\ Processed(plan)[1].quantity = 0
    /\ UnknownSteps(plant, Processed(plan)[1]) = {2}

\* C16: a step of target machine with no machine_id, or of target group with no
\* group_id, fails with MissingField, not with the NotFound a lookup of the
\* missing id would raise; a step of target machine whose machine_id is not in
\* the plant fails with NotFound, and otherwise it resolves to exactly
\* [(that machine, 1)].
C16_MissingField ==
    resolved # Raise(None) =>
        /\ (step.target = "machine" /\ ~Truthy(step.machine_id)) =>
               resolved = Raise("MissingField")
        /\ (step.target = "group" /\ ~Truthy(step.group_id)) =>
               resolved = Raise("MissingField")
        /\ (step.target = "machine" /\ Truthy(step.machine_id)) =>
               IF step.machine_id \in DOMAIN plant.machines
               THEN resolved = Single(step.machine_id)
               ELSE resolved = Raise("NotFound")

\* a step of target group with no group_id and an allocation for machines of the
\* plant
C16_Witness ==
    /\ step.target = "group" /\ step.group_id = None
    /\ "A" \in DOMAIN step.allocation.map
    /\ resolved = Raise("MissingField")

\* -------------------------------------------------------------- group lookup
Declared(g) == g \in plant.machine_groups
MachinesOf(g) == {m \in DOMAIN plant.machines : plant.machines[m].group_id = g}

\* C17: machines_in_group(g) fails with NotFound when g is an unknown group id
\* (not declared, and the group of no machine), fails with EmptyGroup when g is
\* a declared group with no machine, and otherwise returns exactly the machines
\* whose group_id is g, each once, in the order of the plant's machines; the two
\* failures are different errors and neither is an empty list.
C17_GroupLookup ==
    lookup # NoLookup =>
        LET g == lookup.group_id
        IN  /\ (~Declared(g) /\ MachinesOf(g) = {}) <=> lookup.result = Raise("NotFound")
            /\ (Declared(g) /\ MachinesOf(g) = {}) <=> lookup.result = Raise("EmptyGroup")
            /\ MachinesOf(g) # {} =>
                  /\ lookup.result.ok
                  /\ lookup.result.value =
                         SelectSeq(plant.machine_order, LAMBDA m : m \in MachinesOf(g))
            /\ lookup.result # Ok(<<>>)

\* the lookup of the declared group without machines
C17_Witness ==
    /\ lookup.group_id = "g3"
    /\ lookup.result = Raise("EmptyGroup")

\* ---------------------------------------------------------- plan validation
UnknownProduct(o) == o.product_id \notin DOMAIN plant.products
UnknownMachine(o) == o.machine_id \notin DOMAIN plant.machines

\* how many times id is named by an entry of the error that starts with prefix
Entries(prefix, id) ==
    Cardinality({i \in 1..Len(validation.errors) : validation.errors[i] = prefix \o id})

\* C18: validate fails exactly when an order names a product that is not in
\* plant.products or a machine that is not in plant.machines; the error has one
\* entry for each unknown product reference and one for each unknown machine
\* reference of every order, and no other entry; and simulate is not called
\* before validate has returned without error.
C18_PlanValidation ==
    /\ validation # NotValidated =>
          /\ ~validation.ok <=>
                 \E i \in 1..Len(plan) : UnknownProduct(plan[i]) \/ UnknownMachine(plan[i])
          /\ ~validation.ok =>
                 /\ \A i \in 1..Len(plan) :
                       /\ UnknownProduct(plan[i]) =>
                              Entries("Produto desconhecido: ", plan[i].product_id)
                                  = Cardinality({j \in 1..Len(plan) :
                                        plan[j].product_id = plan[i].product_id})
                       /\ UnknownMachine(plan[i]) =>
                              Entries("Equipamento desconhecido: ", plan[i].machine_id)
                                  = Cardinality({j \in 1..Len(plan) :
                                        plan[j].machine_id = plan[i].machine_id})
                 /\ Len(validation.errors) =
                        Cardinality({i \in 1..Len(plan) : UnknownProduct(plan[i])})
                        + Cardinality({i \in 1..Len(plan) : UnknownMachine(plan[i])})
                 /\ validation.message = join("\n", validation.errors)
    /\ validation # Ok(None) => sim = SimStart

\* validation fails on a plan whose first order has an unknown product and an
\* unknown machine and whose second order has an unknown machine
C18_Witness ==
    /\ validation # NotValidated /\ ~validation.ok
    /\ Len(plan) = 2
    /\ UnknownProduct(plan[1]) /\ UnknownMachine(plan[1])
    /\ ~UnknownProduct(plan[2]) /\ UnknownMachine(plan[2])
    /\ Len(validation.errors) = 3

\* ------------------------------------------------------------ hourly series
ResultDays == sim.result[1]
Slots == hourly.slots_per_day

\* the items a series function of the kind asked for goes through
Items ==
    IF hourly.kind = "resource_balance"
    THEN DOMAIN plant.resources
         \cup UNION {DOMAIN ResultDays[i].resource_balance : i \in 1..Len(ResultDays)}
    ELSE IF hourly.kind = "product_output"
    THEN DOMAIN plant.products
         \cup UNION {DOMAIN ResultDays[i].product_quantities : i \in 1..Len(ResultDays)}
    ELSE {<<m, key>> \in (DOMAIN plant.machines) \X CapacityKeys(plant) :
             \E i \in 1..Len(ResultDays) :
                 /\ m \in DOMAIN ResultDays[i].machine_usage
                 /\ key \in DOMAIN ResultDays[i].machine_usage[m].capacity_used}

ItemId(item) ==
    IF hourly.kind = "machine_capacity" THEN item[1] \o "::" \o item[2] ELSE item

\* the total of the item in a day, 0 when the day does not have it
DayTotal(day, item) ==
    IF hourly.kind = "resource_balance" THEN Get(day.resource_balance, item)
    ELSE IF hourly.kind = "product_output" THEN Get(day.product_quantities, item)
    ELSE Get(UsageOf(day, item[1]).capacity_used, item[2])

\* the points of the i-th day in a series
DayPoints(series, i) == SubSeq(series.points, (i - 1) * Slots + 1, i * Slots)
DayValues(series, i) == [k \in 1..Slots |-> DayPoints(series, i)[k].value]

\* Len(days) * slots_per_day points, the days one after the other by ascending
\* date, every point of a day with the value total / slots_per_day
LaidOut(series, item) ==
    /\ Len(series.points) = Len(ResultDays) * Slots
    /\ \A i \in 1..Len(ResultDays) : \A k \in 1..Slots :
          /\ DayPoints(series, i)[k].value = FDiv(DayTotal(ResultDays[i], item), FromInt(Slots))
          /\ DayPoints(series, i)[k].timestamp = [date |-> ResultDays[i].date, hour |-> k - 1]
    /\ \A i, j \in 1..Len(ResultDays) : i < j => ResultDays[i].date < ResultDays[j].date

\* the item that a series is the series of
ItemOf(series) == CHOOSE item \in Items : series.id = ItemId(item)
EmittedSeries == Range(hourly.result.value)
OfAnItem(series) == \E item \in Items : series.id = ItemId(item)

\* C19 as stated: for a positive slots_per_day every series has
\* Len(days) * slots_per_day points, day after day by ascending date, the points
\* of a day all with the value total / slots_per_day and summing to the day's
\* total; a slots_per_day of 0 or less fails with an error.
C19_HourlyPreservesTotals ==
    hourly # NoSeries =>
        IF Slots <= 0 THEN ~hourly.result.ok
        ELSE /\ hourly.result.ok
             /\ \A series \in EmittedSeries :
                   /\ OfAnItem(series)
                   /\ LaidOut(series, ItemOf(series))
                   /\ \A i \in 1..Len(ResultDays) :
                         FSum(DayValues(series, i)) = DayTotal(ResultDays[i], ItemOf(series))

\* a is the floating-point sum of n quotients total / n, each rounded, a quotient
\* below the smallest normal float being off by up to half a unit
CloseToTotal(a, total, n) ==
    /\ n + 1 < Pow2(Precision)
    /\ Abs(a - total) * (Pow2(Precision) - (n + 1))
           <= 2 * (n + 1) * Abs(total) + n * Pow2(Precision)

\* C19 (amended): the points are laid out as stated and the points of a day sum
\* to the day's total up to the rounding error of the division and of the
\* additions; a slots_per_day of 0 or less fails with an error when there is a
\* point to compute (a day and an item), and gives an empty list otherwise.
C19_HourlyTotalsUpToRounding ==
    hourly # NoSeries =>
        IF Slots <= 0
        THEN IF ResultDays # <<>> /\ Items # {}
             THEN hourly.result = Raise("ValueError")
             ELSE hourly.result = Ok(<<>>)
        ELSE /\ hourly.result.ok
             /\ \A series \in EmittedSeries :
                   /\ OfAnItem(series)
                   /\ LaidOut(series, ItemOf(series))
                   /\ \A i \in 1..Len(ResultDays) :
                         CloseToTotal(FSum(DayValues(series, i)),
                                      DayTotal(ResultDays[i], ItemOf(series)), Slots)

\* a resource series of two days and three slots whose item the second day does
\* not have
C19_Witness ==
    /\ hourly.kind = "resource_balance" /\ Slots = 3 /\ hourly.result.ok
    /\ Len(ResultDays) = 2
    /\ \E n \in 1..Len(hourly.result.value) :
          /\ Len(hourly.result.value[n].points) = 6
          /\ hourly.result.value[n].id \notin DOMAIN ResultDays[2].resource_balance
          /\ hourly.result.value[n].points[1].value # 0

\* ------------------------------------------------------ sparse accumulators
\* the map of a MachineUsage that the step's map `field` is added to
UsageField(field) ==
    IF field = "capacity_usage" THEN "capacity_used" ELSE "resource_balance"

StepFields == {"capacity_usage", "resource_changes"}

\* the keys for which some contribution of contribs adds a non-zero amount to
\* the machine
NonZeroKeys(contribs, machine, field) ==
    {key \in UNION {DOMAIN contribs[i].step[field] : i \in 1..Len(contribs)} :
        \E i \in 1..Len(contribs) :
            /\ contribs[i].machine = machine
            /\ key \in DOMAIN contribs[i].step[field]
            /\ Amount(contribs[i], field, key) # 0}

SparseDay(p, orders, machine_usage) ==
    \A m \in DOMAIN machine_usage : \A field \in StepFields :
        DOMAIN machine_usage[m][UsageField(field)] = NonZeroKeys(Contribs(p, orders), m, field)

SparseMaps ==
    \A i \in 1..Len(DaysOf(sim)) :
        SparseDay(plant, OrdersOn(plan, DaysOf(sim)[i].date), DaysOf(sim)[i].machine_usage)

\* the contribution that simulate adds next, when it is about to add one
AddsContribution == sim.pc = "day" /\ sim.mi < Len(sim.machines)
NextContribution ==
    [order |-> CurrentOrder(sim), step |-> CurrentSteps(plant, sim)[sim.si],
     machine |-> sim.machines[sim.mi + 1].machine, share |-> sim.machines[sim.mi + 1].share]

UsageMap(machine_usage, machine, field) ==
    IF machine \in DOMAIN machine_usage
    THEN machine_usage[machine][UsageField(field)] ELSE EmptyMap

\* a contribution of zero for a key: zero order quantity, zero per-unit amount,
\* or a product that is zero
ZeroFor(c, field, key) ==
    c.order.quantity = 0 \/ c.step[field][key] = 0 \/ Amount(c, field, key) = 0

ZeroAddsChangeNothing ==
    AddsContribution /\ sim'.pc = "day" /\ sim'.mi = sim.mi + 1 =>
        LET c == NextContribution
        IN  \A field \in StepFields :
            LET before == UsageMap(sim.machine_usage, c.machine, field)
                after == UsageMap(sim'.machine_usage, c.machine, field)
                zeros == {key \in DOMAIN c.step[field] : ZeroFor(c, field, key)}
            IN  /\ \A key \in zeros :
                      /\ key \in DOMAIN after <=> key \in DOMAIN before
                      /\ key \in DOMAIN before => after[key] = before[key]
                /\ zeros = DOMAIN c.step[field] => after = before
                /\ \A m \in DOMAIN sim.machine_usage \ {c.machine} :
                      sim'.machine_usage[m] = sim.machine_usage[m]

\* C20: in every DaySummary a key is in a MachineUsage's capacity_used
\* (resource_balance) map exactly when some contribution of that day added a
\* non-zero amount for the key to the machine; a contribution that is zero for
\* a key (zero order quantity, zero per-unit amount, or a zero product) neither
\* creates the key nor changes its value, and one that is zero for every key
\* leaves the map as it was.
C20_SparseAccumulators == []SparseMaps /\ [][ZeroAddsChangeNothing]_vars

\* a day whose summary holds, for one machine, a key that received a zero and
\* a non-zero contribution, and lacks a key that received only zero ones
C20_Witness ==
    \E i \in 1..Len(DaysOf(sim)) :
        LET day == DaysOf(sim)[i]
            contribs == Contribs(plant, OrdersOn(plan, day.date))
        IN  \E m \in DOMAIN day.machine_usage : \E field \in StepFields :
            \E a, b \in 1..Len(contribs) :
            \E ka \in DOMAIN contribs[a].step[field], kb \in DOMAIN contribs[b].step[field] :
                /\ contribs[a].machine = m /\ contribs[b].machine = m
                /\ ZeroFor(contribs[a], field, ka)
                /\ ka \in DOMAIN day.machine_usage[m][UsageField(field)]
                /\ kb \notin DOMAIN day.machine_usage[m][UsageField(field)]

\* --------------------------------------------------------- day independence
\* the DaySummary that simulate gives for a plan of the orders of one date
AloneDay(p, orders) == simulate(p, orders).result[1][1]

\* the objects that the references of a day name
ObjectsOf(r) ==
    {r.product_quantities, r.machine_usage, r.resource_balance}
    \cup UNION {{r.usage[m].usage, r.usage[m].capacity_used, r.usage[m].resource_balance} :
                   m \in DOMAIN r.usage}

\* the references of a day name that many distinct objects, none of them missing
AllDistinct(r) ==
    /\ Cardinality(ObjectsOf(r)) = 3 + 3 * Cardinality(DOMAIN r.usage)
    /\ 0 \notin ObjectsOf(r)

\* no two days of s share an object, and the accumulators of the day in progress
\* are shared with no day
NothingShared(s) ==
    /\ Len(s.refs) = Len(DaysOf(s))
    /\ \A i \in 1..Len(s.refs) :
          /\ DOMAIN s.refs[i].usage = DOMAIN DaysOf(s)[i].machine_usage
          /\ AllDistinct(s.refs[i])
          /\ \A j \in 1..Len(s.refs) :
                i # j => ObjectsOf(s.refs[i]) \cap ObjectsOf(s.refs[j]) = {}
    /\ s.pc = "day" =>
          /\ DOMAIN s.acc_refs.usage = DOMAIN s.machine_usage
          /\ AllDistinct(s.acc_refs)
          /\ \A i \in 1..Len(s.refs) :
                ObjectsOf(s.acc_refs) \cap ObjectsOf(s.refs[i]) = {}

\* a second call of simulate with the same arguments, after the one that returned
SecondRun == run(plant, plan, [SimStart EXCEPT !.heap = sim.heap])

\* C21: each DaySummary of a result is the one that simulate gives for the
\* orders of its date alone, whatever the orders of the other dates are; no
\* MachineUsage and no map is shared between two days, between a day and the
\* accumulators in progress, or between the results of two runs.
C21_DayIndependence ==
    /\ NothingShared(sim)
    /\ JustReturned =>
          /\ \A i \in 1..Len(ResultDays) :
                ResultDays[i] = AloneDay(plant, OrdersOn(plan, ResultDays[i].date))
          /\ SecondRun.result = sim.result
          /\ NothingShared(SecondRun)
          /\ \A i, j \in 1..Len(sim.refs) :
                ObjectsOf(sim.refs[i]) \cap ObjectsOf(SecondRun.refs[j]) = {}

\* a result of two days whose summaries differ and have a machine in common,
\* with capacity used on both days
C21_Witness ==
    /\ JustReturned
    /\ Len(ResultDays) = 2
    /\ ResultDays[1].machine_usage # ResultDays[2].machine_usage
    /\ \E m \in DOMAIN ResultDays[1].machine_usage :
          /\ m \in DOMAIN ResultDays[2].machine_usage
          /\ ResultDays[1].machine_usage[m].capacity_used # EmptyMap
          /\ ResultDays[2].machine_usage[m].capacity_used # EmptyMap

\* ------------------------------------------------- validate, then simulate
\* the error that the j-th recipe step of the order's product raises, None when
\* it raises none
StepError(p, o, j) ==
    LET pairs == resolve_step_machines(p.products[o.product_id][j], o, p)
    IN  IF pairs.ok THEN None ELSE pairs.err

\* the first order that simulate fails on, when it fails
FailingOrder(p, orders) ==
    LET processed == Processed(orders)
    IN  processed[CHOOSE i \in 1..Len(processed) :
                      /\ OrderError(p, processed[i]) # None
                      /\ \A j \in 1..(i - 1) : OrderError(p, processed[j]) = None]

\* the errors that the lookups and checks of a step of that target can raise,
\* the lookup of the order's machine left out
StepErrors(target) ==
    IF target = "order_machine" THEN {"GroupMismatch"}
    ELSE IF target = "machine" THEN {"MissingField", "NotFound"}
    ELSE IF target = "group"
    THEN {"MissingField", "NotFound", "EmptyGroup", "NegativeAllocation",
          "NoMatchingAllocation", "NoValidAllocation"}
    ELSE {"UnknownTarget"}

\* C22: after validate(plant) has succeeded on the plan, every order's product
\* and machine are in the plant, and a failure of simulate is the error of a
\* recipe step of a known product: a lookup of the step's own machine_id or
\* group_id, a group mismatch, an allocation error or an unknown target, never
\* the lookup of the order's product_id or of the order's machine_id.
C22_ValidateThenSimulate ==
    validation = Ok(None) =>
        /\ \A i \in 1..Len(plan) :
              /\ get_product(plant, plan[i].product_id).ok
              /\ get_machine(plant, plan[i].machine_id).ok
        /\ sim.pc = "failed" =>
              LET o == FailingOrder(plant, plan)
              IN  /\ o.product_id \in DOMAIN plant.products
                  /\ \E j \in 1..Len(plant.products[o.product_id]) :
                        /\ \A k \in 1..(j - 1) : StepError(plant, o, k) = None
                        /\ sim.error = StepError(plant, o, j)
                        /\ sim.error \in StepErrors(plant.products[o.product_id][j].target)

\* a validated plan on which simulate fails with NotFound, at a step that names
\* a machine the plant does not have, after a day that was aggregated
C22_Witness ==
    /\ validation = Ok(None)
    /\ sim.pc = "failed" /\ sim.error = "NotFound"
    /\ Len(plan) = 2 /\ plan[1].date # plan[2].date
    /\ \E j \in 1..Len(plant.products[FailingOrder(plant, plan).product_id]) :
          /\ StepError(plant, FailingOrder(plant, plan), j) # None
          /\ plant.products[FailingOrder(plant, plan).product_id][j].target = "machine"

\* -------------------------------------------------- the machine of an order
\* the product of the order has a step that takes the order's machine
UsesOrderMachine(p, o) ==
    /\ o.product_id \in DOMAIN p.products
    /\ \E j \in 1..Len(p.products[o.product_id]) :
          p.products[o.product_id][j].target = "order_machine"

\* other machine ids for an order: of a machine of another group, of no machine
\* of the plant
MachineIdPool == {"D", "X"}

\* the orders with ids[i] as the machine of the i-th order, for the orders whose
\* product has no step that takes the order's machine
Reassigned(p, orders, ids) ==
    [i \in 1..Len(orders) |->
        IF UsesOrderMachine(p, orders[i]) THEN orders[i]
        ELSE [orders[i] EXCEPT !.machine_id = ids[i]]]

\* simulate has returned or failed, and nothing was asked of the result yet
JustFinished == sim.pc \in {"done", "failed"} /\ alerts = NoAlerts /\ overall = NoTotals

\* C23: the machine_id of an order whose product has no order_machine step has
\* no influence on simulate: with any other machine ids for such orders, ids of
\* no machine of the plant included, simulate returns the same days or fails
\* with the same error.
C23_OrderMachineIrrelevance ==
    JustFinished =>
        \A ids \in [1..Len(plan) -> MachineIdPool] :
            LET other == simulate(plant, Reassigned(plant, plan, ids))
            IN  /\ other.pc = sim.pc
                /\ other.error = sim.error
                /\ other.result = sim.result

\* a result with machine usage for a plan of one order that takes its machine
\* and one that does not
C23_Witness ==
    /\ JustFinished /\ sim.pc = "done"
    /\ Len(plan) = 2
    /\ UsesOrderMachine(plant, plan[1])
    /\ ~UsesOrderMachine(plant, plan[2])
    /\ Contribs(plant, <<plan[2]>>) # <<>>
    /\ Reassigned(plant, plan, [i \in 1..2 |-> "X"]) # plan

\* ------------------------------------------------- the list of a group step
\* a group step was given to the resolver and _normalize_allocation returned
\* shares for it
NormalizationSucceeds ==
    /\ resolved # Raise(None)
    /\ step.target = "group"
    /\ ~missing_field(step.group_id)
    /\ machines_in_group(plant, step.group_id).ok
    /\ normalize_allocation(Group, step.allocation).ok

Normalized == normalize_allocation(Group, step.allocation).value

\* C24: when the normalization of a group step succeeds, the resolver returns a
\* list that is not empty, in the order of the group's machines, of exactly the
\* machines of the group whose normalized share is strictly positive, each with
\* that share; a matched machine of weight 0 is not in the list when another
\* matched weight is positive, and the error "no valid allocation" is not raised.
C24_ResolvedList ==
    NormalizationSucceeds =>
        /\ resolved # Raise("NoValidAllocation")
        /\ Resolved
        /\ resolved.value # <<>>
        /\ ResolvedMachines = SelectSeq(Group, LAMBDA m : Get(Normalized, m) > 0)
        /\ \A i \in 1..Len(Shares) : Shares[i] = Normalized[ResolvedMachines[i]]
        /\ \A m \in Matched :
              (/\ ~EvenSplit
               /\ step.allocation.map[m] = 0
               /\ \E n \in Matched : step.allocation.map[n] > 0) =>
                  m \notin Range(ResolvedMachines)

============================================================================
